---- MODULE Spec2Model ----
(***************************************************************************)
(* Chat history store (chat_history.py) and its MCP tool gateway           *)
(* (mcp_server.py).                                                        *)
(*                                                                         *)
(* The Elasticsearch index, the embedding endpoint and the three LLM       *)
(* endpoints are external services.  Every outbound call either succeeds   *)
(* or raises; which one is an input of the action (fault).  Texts are      *)
(* sequences of one-character strings.  Each handler performs at most one  *)
(* access to the shared index, so a handler is one atomic action.          *)
(***************************************************************************)
EXTENDS Integers, Sequences, FiniteSets, TLC

VARIABLES
    indexExists,  \* the index "chat_history" exists in the backing store
    docs,         \* documents of the index, in the order they were written
    producedBy,   \* producedBy[i]: the LLM endpoint that produced docs[i].response
    clock,        \* datetime.now(), as a logical clock
    pc,           \* pc[p]: position of process p in ChatHistoryManager.__init__
    op,           \* the operation performed by the last step
    arg,          \* its argument map (uri for a resource read)
    ext,          \* outcomes of its outbound calls
    calls,        \* the outbound calls it made, in order
    found,        \* what search_similar_chats returned to it (<<>> if not called)
    ret           \* what the handler returned or raised

vars == <<indexExists, docs, producedBy, clock, pc, op, arg, ext, calls, found, ret>>

-----------------------------------------------------------------------------
(* Bounds *)

MaxRecords == 2
MaxLimit == 2
RespSlack == 2
MaxHits == 2
NumProcs == 4

(* Program constants *)

TruncLen == 200
DefaultLimit == 5
ResourceSize == 10

Procs == 1..NumProcs

Providers == {"openai", "anthropic", "google"}
ProviderArgs == Providers \cup {"mistral"}
Questions == {<< >>, <<"a">>}
Queries == {<<"a">>}
Answers == {<<"x">>}
Vectors == {<<1, 0>>, <<-3, -4>>}
Uris == {"chat://history", "chat://other"}
ToolNames == {"search_chat_history", "ask_llm", "get_chat_stats", "delete_all"}

SourceFields == {"timestamp", "provider", "query", "response"}

-----------------------------------------------------------------------------
(* Helpers *)

Min(a, b) == IF a <= b THEN a ELSE b

\* dict.get(key, default)
Get(arguments, key, default) ==
    IF key \in DOMAIN arguments THEN arguments[key] ELSE default

NoArgs == [k \in {} |-> 0]

\* str.upper()
Upper(s) ==
    CASE s = "openai" -> "OPENAI"
      [] s = "anthropic" -> "ANTHROPIC"
      [] s = "google" -> "GOOGLE"
      [] s = "mistral" -> "MISTRAL"
      [] OTHER -> s

Text(tag, body) == [kind |-> "text", tag |-> tag, body |-> body]
Raised(exc, body) == [kind |-> "raise", tag |-> exc, body |-> body]

NoExt == [fault |-> "none", answer |-> << >>, vec |-> << >>]
Outcome(fault, answer, vec) == [fault |-> fault, answer |-> answer, vec |-> vec]

\* str(e) of the exception an outbound call raised
ErrorText(fault) ==
    CASE fault = "llm" -> "completion failed"
      [] fault = "embed" -> "embedding failed"
      [] fault = "store" -> "elasticsearch failed"


-----------------------------------------------------------------------------
(* Backing store: the script_score query and the terms aggregation *)

RECURSIVE DotUpTo(_, _, _)
DotUpTo(a, b, n) == IF n = 0 THEN 0 ELSE a[n] * b[n] + DotUpTo(a, b, n - 1)

Dot(a, b) == DotUpTo(a, b, Len(a))

\* magnitude of a vector; the vectors used have integral magnitude
Norm(a) == LET d == Dot(a, a) IN CHOOSE r \in 0..d : r * r = d

\* cosineSimilarity(a, b) as the fraction num/den, den > 0
CosineSimilarity(a, b) == [num |-> Dot(a, b), den |-> Norm(a) * Norm(b)]

\* "cosineSimilarity(params.query_vector, 'embedding') + 1.0"
Score(query_vector, embedding) ==
    LET c == CosineSimilarity(query_vector, embedding)
    IN  [num |-> c.num + c.den, den |-> c.den]

ScoreGeq(s, t) == s.num * t.den >= t.num * s.den

\* "_source": ["timestamp", "provider", "query", "response"]
Source(doc) == [f \in SourceFields |-> doc[f]]

Perms(n) == { f \in [1..n -> 1..n] : \A i, j \in 1..n : f[i] = f[j] => i = j }

\* the orders in which the store may rank the documents: by descending score,
\* documents of equal score in any order (score: the tuple of the scores)
Ranked(index, query_vector) ==
    LET score == << >> \o [i \in 1..Len(index) |->
                              Score(query_vector, index[i].embedding)]
    IN  { f \in Perms(Len(index)) :
            \A i \in 1..(Len(index) - 1) : ScoreGeq(score[f[i]], score[f[i + 1]]) }

\* variant: "size" is ignored
EsSearchAll(index, f, size) ==
    [i \in 1..Len(index) |-> Source(index[f[i]])]

\* es.search(body = script_score query): the hits, given the order f in which
\* the store ranked the documents
EsSearch(index, f, size) ==
    [i \in 1..Min(size, Len(index)) |-> Source(index[f[i]])]

\* variant: every document is counted in every bucket
DocCountAll(index, key) == Len(index)

DocCount(index, key) == Cardinality({ i \in 1..Len(index) : index[i].provider = key })

KeyRank(key) ==
    CASE key = "anthropic" -> 1
      [] key = "google" -> 2
      [] key = "mistral" -> 3
      [] key = "openai" -> 4

\* terms aggregation on "provider": one bucket per key that occurs, by
\* descending doc_count, then ascending key
TermsBuckets(index) ==
    LET keys == { index[i].provider : i \in 1..Len(index) }
        n == Cardinality(keys)
        order == CHOOSE f \in [1..n -> keys] :
                    /\ \A i, j \in 1..n : f[i] = f[j] => i = j
                    /\ \A i, j \in 1..n : i < j =>
                          \/ DocCount(index, f[i]) > DocCount(index, f[j])
                          \/ /\ DocCount(index, f[i]) = DocCount(index, f[j])
                             /\ KeyRank(f[i]) < KeyRank(f[j])
    IN  [i \in 1..n |-> [key |-> order[i], doc_count |-> DocCount(index, order[i])]]

\* es.search(body = stats_query): hits.total.value and the buckets
EsStats(index) == [total |-> Len(index), buckets |-> TermsBuckets(index)]

-----------------------------------------------------------------------------
(* ChatHistoryManager *)

\* variant: a write replaces the stored documents
EsIndexOverwrite(index, written) == IF written = << >> THEN index ELSE written

\* es.index(index = "chat_history", document = doc) for each document written
EsIndex(index, written) == index \o written

\* the document index_chat builds
Doc(query, response, provider, embedding, now) ==
    [timestamp |-> now, provider |-> provider, query |-> query,
     response |-> response, embedding |-> embedding]

\* search_similar_chats(query, size): the embedding call, then the search;
\* sets the outbound results, the calls made and the list returned
SearchSimilarChats(size) ==
    \/ /\ ext' = Outcome("embed", << >>, << >>)
       /\ calls' = <<"embeddings">>
       /\ found' = << >>
    \/ /\ ext' = Outcome("store", << >>, << >>)
       /\ calls' = <<"embeddings", "es.search">>
       /\ found' = << >>
    \/ \E query_embedding \in Vectors :
         \E f \in Ranked(docs, query_embedding) :
           /\ ext' = Outcome("none", << >>, <<query_embedding>>)
           /\ calls' = <<"embeddings", "es.search">>
           /\ found' = EsSearch(docs, f, size)

\* variant: every ask_* method labels its record "openai"
AskLabelOpenai(endpoint) == "openai"

\* the provider string each ask_* method passes to index_chat
AskLabel(endpoint) == endpoint

\* ask_openai / ask_anthropic / ask_google: the completion call, then
\* index_chat (embedding call, document write), then return the answer.
\* Each outcome: the outbound results, the calls made, the documents written.
AskProvider(endpoint, question, now) ==
    { [ext |-> Outcome("llm", << >>, << >>),
       calls |-> <<endpoint>>, written |-> << >>] }
    \cup
    { [ext |-> Outcome("embed", <<a>>, << >>),
       calls |-> <<endpoint, "embeddings">>, written |-> << >>] : a \in Answers }
    \cup
    { [ext |-> Outcome("store", <<a>>, << >>),
       calls |-> <<endpoint, "embeddings", "es.index">>, written |-> << >>] :
         a \in Answers }
    \cup
    { [ext |-> Outcome("none", <<x[1]>>, <<x[2]>>),
       calls |-> <<endpoint, "embeddings", "es.index">>,
       written |-> <<Doc(question, x[1], AskLabel(endpoint), x[2], now)>>] :
         x \in Answers \X Vectors }

-----------------------------------------------------------------------------
(* Tool gateway: formatting *)

Ellipsis == <<".", ".", ".">>

\* s[:n]
Slice(s, n) == SubSeq(s, 1, Min(n, Len(s)))

\* variant: the marker is added from 200 characters on
TruncateGeq(response) ==
    Slice(response, TruncLen) \o (IF Len(response) >= TruncLen THEN Ellipsis ELSE << >>)

\* chat['response'][:200] followed by '...' if len(chat['response']) > 200
Truncate(response) ==
    Slice(response, TruncLen) \o (IF Len(response) > TruncLen THEN Ellipsis ELSE << >>)

\* the listing search_chat_history builds from a non-empty result list
FormatListing(results) ==
    [count |-> Len(results),
     items |-> [i \in 1..Len(results) |->
                  [n |-> i,
                   provider |-> Upper(results[i].provider),
                   timestamp |-> results[i].timestamp,
                   q |-> results[i].query,
                   a |-> Truncate(results[i].response)]]]

\* the text get_chat_stats builds from the search response
FormatStats(response) ==
    [total |-> response.total,
     lines |-> [i \in 1..Len(response.buckets) |->
                  [provider |-> Upper(response.buckets[i].key),
                   doc_count |-> response.buckets[i].doc_count]]]

\* variant: the dispatch falls through to ask_openai
DispatchDefault(provider) ==
    IF provider = "anthropic" THEN "anthropic"
    ELSE IF provider = "google" THEN "google"
    ELSE "openai"

\* the ask_llm dispatch: the ask_* method chosen for a provider argument
Dispatch(provider) ==
    IF provider = "openai" THEN "openai"
    ELSE IF provider = "anthropic" THEN "anthropic"
    ELSE IF provider = "google" THEN "google"
    ELSE "unknown"

-----------------------------------------------------------------------------
(* Initial state of the gateway: every process has constructed its
   ChatHistoryManager, so the index exists; nothing is stored yet *)

Init ==
    /\ indexExists = TRUE
    /\ docs = << >>
    /\ producedBy = << >>
    /\ clock = 1
    /\ pc = [p \in Procs |-> "ready"]
    /\ op = "none"
    /\ arg = NoArgs
    /\ ext = NoExt
    /\ calls = << >>
    /\ found = << >>
    /\ ret = Text("none", << >>)

(* Initial state of start-up: no process has constructed its
   ChatHistoryManager yet; the index may be left over from an earlier run *)

InitStartup ==
    /\ indexExists \in BOOLEAN
    /\ docs = << >>
    /\ producedBy = << >>
    /\ clock = 1
    /\ pc = [p \in Procs |-> "start"]
    /\ op = "none"
    /\ arg = NoArgs
    /\ ext = NoExt
    /\ calls = << >>
    /\ found = << >>
    /\ ret = Text("none", << >>)

\* some process has imported mcp_server and serves tool calls
Serving == { p \in Procs : pc[p] = "ready" } # {}

-----------------------------------------------------------------------------
(* ChatHistoryManager.__init__ / _ensure_index_exists, two steps per process *)

\* es.indices.exists(index = "chat_history")
EnsureCheck(p) ==
    /\ pc[p] = "start"
    /\ pc' = [pc EXCEPT ![p] = IF indexExists THEN "ready" ELSE "create"]
    /\ op' = "ensure_index_exists"
    /\ arg' = [proc |-> p]
    /\ ext' = NoExt
    /\ calls' = <<"es.indices.exists">>
    /\ found' = << >>
    /\ ret' = Text("none", << >>)
    /\ UNCHANGED <<indexExists, docs, producedBy, clock>>

\* es.indices.create(index = "chat_history", body = mapping): the store
\* rejects the creation of an index that exists, and nothing catches it
EnsureCreate(p) ==
    /\ pc[p] = "create"
    /\ IF indexExists
       THEN /\ pc' = [pc EXCEPT ![p] = "failed"]
            /\ ret' = Raised("RequestError", "resource_already_exists_exception")
            /\ UNCHANGED indexExists
       ELSE /\ pc' = [pc EXCEPT ![p] = "ready"]
            /\ ret' = Text("none", << >>)
            /\ indexExists' = TRUE
    /\ op' = "ensure_index_exists"
    /\ arg' = [proc |-> p]
    /\ ext' = NoExt
    /\ calls' = <<"es.indices.create">>
    /\ found' = << >>
    /\ UNCHANGED <<docs, producedBy, clock>>

-----------------------------------------------------------------------------
(* handle_call_tool *)

\* argument maps of search_chat_history: "query" is required by the input
\* schema, "limit" is optional
SearchArgs ==
    { "query" :> q : q \in Queries }
    \cup { ("query" :> x[1]) @@ ("limit" :> x[2]) : x \in Queries \X (1..MaxLimit) }

\* argument maps of ask_llm: each of "question" and "provider" given or not
AskArgs ==
    {NoArgs}
    \cup { "question" :> q : q \in Questions }
    \cup { "provider" :> p : p \in ProviderArgs }
    \cup { ("question" :> x[1]) @@ ("provider" :> x[2]) : x \in Questions \X ProviderArgs }

\* name == "search_chat_history": nothing catches what search_similar_chats raises
SearchChatHistory(arguments) ==
    LET query == Get(arguments, "query", << >>)
        limit == Get(arguments, "limit", DefaultLimit)
    IN  /\ Serving
        /\ SearchSimilarChats(limit)
        /\ ret' = IF ext'.fault # "none"
                    THEN Raised("Exception", ErrorText(ext'.fault))
                  ELSE IF found' = << >>
                    THEN Text("no_results", << >>)
                  ELSE Text("found", FormatListing(found'))
        /\ op' = "search_chat_history"
        /\ arg' = arguments
        /\ UNCHANGED <<indexExists, docs, producedBy, clock, pc>>

\* variant: the empty-question check never fires
NoQuestionNever(question) == FALSE

\* "not question"
NoQuestion(question) == question = << >>

\* name == "ask_llm"
AskLlm(arguments) ==
    LET question == Get(arguments, "question", << >>)
        provider == Get(arguments, "provider", "openai")
    IN  /\ Serving
        /\ op' = "ask_llm"
        /\ arg' = arguments
        /\ found' = << >>
        /\ UNCHANGED <<indexExists, pc>>
        /\ IF NoQuestion(question)
           THEN /\ ret' = Text("prompt", << >>)
                /\ ext' = NoExt
                /\ calls' = << >>
                /\ UNCHANGED <<docs, producedBy, clock>>
           ELSE IF Dispatch(provider) = "unknown"
           THEN /\ ret' = Text("unknown_provider", provider)
                /\ ext' = NoExt
                /\ calls' = << >>
                /\ UNCHANGED <<docs, producedBy, clock>>
           ELSE \E o \in AskProvider(Dispatch(provider), question, clock) :
                  /\ Len(docs) + Len(o.written) <= MaxRecords
                  /\ ext' = o.ext
                  /\ calls' = o.calls
                  /\ docs' = EsIndex(docs, o.written)
                  /\ producedBy' = producedBy \o [i \in 1..Len(o.written) |-> o.calls[1]]
                  /\ clock' = clock + Len(o.written)
                  /\ ret' = IF o.ext.fault = "none"
                            THEN Text("answer", [question |-> question,
                                                 provider |-> Upper(provider),
                                                 response |-> o.ext.answer[1]])
                            ELSE Text("ask_error", [provider |-> provider,
                                                    error |-> ErrorText(o.ext.fault)])

\* name == "get_chat_stats"
GetChatStats(fault) ==
    /\ Serving
    /\ op' = "get_chat_stats"
    /\ arg' = NoArgs
    /\ ext' = Outcome(fault, << >>, << >>)
    /\ calls' = <<"es.search">>
    /\ found' = << >>
    /\ ret' = IF fault = "none"
              THEN Text("stats", FormatStats(EsStats(docs)))
              ELSE Text("stats_error", ErrorText(fault))
    /\ UNCHANGED <<indexExists, docs, producedBy, clock, pc>>

\* any other name
UnknownTool(name) ==
    /\ Serving
    /\ name \notin {"search_chat_history", "ask_llm", "get_chat_stats"}
    /\ op' = name
    /\ arg' = NoArgs
    /\ ext' = NoExt
    /\ calls' = << >>
    /\ found' = << >>
    /\ ret' = Raised("ValueError", name)
    /\ UNCHANGED <<indexExists, docs, producedBy, clock, pc>>

\* handle_read_resource
ReadResource(uri) ==
    /\ Serving
    /\ op' = "read_resource"
    /\ arg' = [uri |-> uri]
    /\ IF uri = "chat://history"
       THEN /\ SearchSimilarChats(ResourceSize)
            /\ ret' = IF ext'.fault # "none"
                      THEN Raised("Exception", ErrorText(ext'.fault))
                      ELSE Text("json", found')
       ELSE /\ ext' = NoExt
            /\ calls' = << >>
            /\ found' = << >>
            /\ ret' = Raised("ValueError", uri)
    /\ UNCHANGED <<indexExists, docs, producedBy, clock, pc>>

Next ==
    \/ \E arguments \in SearchArgs : SearchChatHistory(arguments)
    \/ \E arguments \in AskArgs : AskLlm(arguments)
    \/ \E fault \in {"none", "store"} : GetChatStats(fault)
    \/ \E name \in ToolNames : UnknownTool(name)
    \/ \E uri \in Uris : ReadResource(uri)

NextStartup ==
    \/ \E p \in Procs : EnsureCheck(p)
    \/ \E p \in Procs : EnsureCreate(p)

\* the gateway serving tool calls and resource reads
Spec == Init /\ [][Next]_vars

\* processes starting concurrently against one backing store
SpecStartup == InitStartup /\ [][NextStartup]_vars

-----------------------------------------------------------------------------
(* Formatting of a search_chat_history listing, over result lists whose
   response bodies have lengths around the 200-character limit *)

Alphabet == <<"a", "b", "c">>

\* a response body of n characters, the character at i depending on i
Body(n) == [i \in 1..n |-> Alphabet[(i % 3) + 1]]

BodyLens == (0..RespSlack) \cup ((TruncLen - RespSlack)..(TruncLen + RespSlack))

HitInputs ==
    { [timestamp |-> 1, provider |-> p, query |-> <<"a">>, response |-> Body(n)] :
        p \in {"openai", "google"}, n \in BodyLens }

InitFormat ==
    /\ indexExists = TRUE
    /\ docs = << >>
    /\ producedBy = << >>
    /\ clock = 1
    /\ pc = [p \in Procs |-> "ready"]
    /\ op = "none"
    /\ arg = NoArgs
    /\ ext = NoExt
    /\ calls = << >>
    /\ found \in UNION { [1..n -> HitInputs] : n \in 1..MaxHits }
    /\ ret = Text("none", << >>)

\* the formatting part of the search_chat_history branch, applied to found
FormatFound ==
    /\ op = "none"
    /\ op' = "search_chat_history"
    /\ ret' = Text("found", FormatListing(found))
    /\ UNCHANGED <<indexExists, docs, producedBy, clock, pc, arg, ext, calls, found>>

NextFormat == FormatFound

\* FormatListing applied to every bounded result list
SpecFormat == InitFormat /\ [][NextFormat]_vars

-----------------------------------------------------------------------------
(* Properties *)

ToolOps == {"search_chat_history", "ask_llm", "get_chat_stats"}

\* the last operation was ask_llm and its completion call returned an answer
Answered == op = "ask_llm" /\ ext.answer # << >>

\* C1: when the completion call succeeds and the index step (embedding call
\* or document write) fails, ask_llm still returns the provider's answer.
PersistFailureKeepsAnswer ==
    (Answered /\ ext.fault \in {"embed", "store"}) =>
        /\ ret.kind = "text"
        /\ ret.tag = "answer"
        /\ ret.body.response = ext.answer[1]

\* C2: whatever outbound call fails, each of the three tool operations ends
\* by returning a text result; none raises to the host.
ToolsNeverRaise ==
    op \in ToolOps => ret.kind = "text"

\* C3: ask_llm with an empty or missing question returns the prompt message,
\* makes no outbound call at all and leaves the collection unchanged.
EmptyQuestionPrompts ==
    [][ (op' = "ask_llm" /\ Get(arg', "question", << >>) = << >>) =>
            /\ ret' = Text("prompt", << >>)
            /\ calls' = << >>
            /\ docs' = docs ]_vars

EmptyQuestionAsked ==
    /\ op = "ask_llm"
    /\ "question" \notin DOMAIN arg
    /\ Get(arg, "provider", "openai") = "google"
    /\ ret.tag = "prompt"
    /\ Len(docs) = 1

\* C4: ask_llm with a non-empty question and a provider outside the
\* enumeration returns the "unknown provider" text, makes no outbound call
\* and writes no record.
UnknownProviderText ==
    [][ ( /\ op' = "ask_llm"
          /\ Get(arg', "question", << >>) # << >>
          /\ Get(arg', "provider", "openai") \notin Providers ) =>
            /\ ret' = Text("unknown_provider", arg'["provider"])
            /\ calls' = << >>
            /\ docs' = docs ]_vars

UnknownProviderAsked ==
    /\ op = "ask_llm"
    /\ Get(arg, "question", << >>) = <<"a">>
    /\ Get(arg, "provider", "openai") = "mistral"
    /\ ret.kind = "text"
    /\ Len(docs) = 1

\* C5: in every interleaving of the existence checks and creations of
\* concurrently starting processes, no start-up fails.
EnsureNeverFails ==
    \A p \in Procs : pc[p] # "failed"

\* C6: a step adds exactly one record, after the stored ones, when it is an
\* ask_llm whose completion call, embedding call and document write all
\* succeeded; every other step leaves the collection as it was.
AppendOnly ==
    [][ /\ Len(docs') = Len(docs) + (IF Answered' /\ ext'.fault = "none" THEN 1 ELSE 0)
        /\ SubSeq(docs', 1, Len(docs)) = docs ]_vars

SecondRecordAppended ==
    /\ Answered
    /\ ext.fault = "none"
    /\ Len(docs) = 2
    /\ docs[1] # docs[2]

\* cosine similarity plus one, as a fraction
SimilarityPlusOne(q, e) ==
    LET c == CosineSimilarity(q, e) IN [num |-> c.num + 1 * c.den, den |-> c.den]

\* C7: a successful search with limit N returns exactly min(N, number of
\* stored records) records; they are stored records reduced to timestamp,
\* provider, query and response, in descending order of cosine similarity
\* plus one, and no record left out scores higher than one returned.
SearchTopN ==
    (op = "search_chat_history" /\ ext.fault = "none") =>
        LET N == Get(arg, "limit", DefaultLimit)
            n == Len(docs)
            s == [i \in 1..n |-> SimilarityPlusOne(ext.vec[1], docs[i].embedding)]
        IN  /\ Len(found) = Min(N, n)
            /\ Len(found) <= N
            /\ \A i \in 1..Len(found) : DOMAIN found[i] = SourceFields
            /\ \E g \in [1..Len(found) -> 1..n] :
                  /\ \A i, j \in 1..Len(found) : g[i] = g[j] => i = j
                  /\ \A i \in 1..Len(found) :
                        \A fld \in SourceFields : found[i][fld] = docs[g[i]][fld]
                  /\ \A i, j \in 1..Len(found) :
                        i < j => ScoreGeq(s[g[i]], s[g[j]])
                  /\ \A i \in 1..Len(found) :
                        \A k \in 1..n :
                            (\A j \in 1..Len(found) : g[j] # k) => ScoreGeq(s[g[i]], s[k])

SearchRanked ==
    /\ op = "search_chat_history"
    /\ ext.fault = "none"
    /\ Get(arg, "limit", DefaultLimit) = 1
    /\ Len(docs) = 2
    /\ docs[1].embedding # docs[2].embedding
    /\ found = <<Source(docs[2])>>

RECURSIVE ReportedUpTo(_, _, _)
ReportedUpTo(lines, keys, n) ==
    IF n = 0 THEN 0
    ELSE (IF lines[n].provider \in keys THEN lines[n].doc_count ELSE 0)
         + ReportedUpTo(lines, keys, n - 1)

\* the count the statistics text reports for the given (uppercased) providers
Reported(lines, keys) == ReportedUpTo(lines, keys, Len(lines))

\* C8: a successful get_chat_stats reports the number of stored records as
\* the total and, for each provider, the number of stored records of that
\* provider (no line for a provider without records); the per-provider
\* counts sum to the total, and an empty collection gives no line.
StatsCounts ==
    (op = "get_chat_stats" /\ ext.fault = "none") =>
        /\ ret.kind = "text"
        /\ ret.tag = "stats"
        /\ ret.body.total = Len(docs)
        /\ \A p \in ProviderArgs :
              Reported(ret.body.lines, {Upper(p)})
                  = Cardinality({ i \in 1..Len(docs) : docs[i].provider = p })
        /\ \A i, j \in 1..Len(ret.body.lines) :
              ret.body.lines[i].provider = ret.body.lines[j].provider => i = j
        /\ \A i \in 1..Len(ret.body.lines) : ret.body.lines[i].doc_count > 0
        /\ Reported(ret.body.lines, { Upper(p) : p \in ProviderArgs }) = ret.body.total
        /\ (docs = << >> => ret.body.total = 0 /\ ret.body.lines = << >>)

StatsOfTwoProviders ==
    /\ op = "get_chat_stats"
    /\ ext.fault = "none"
    /\ Len(docs) = 2
    /\ docs[1].provider # docs[2].provider

\* C9: the provider field of every stored record is one of openai,
\* anthropic, google and names the endpoint that produced its response.
ProviderNamesEndpoint ==
    /\ Len(producedBy) = Len(docs)
    /\ \A i \in 1..Len(docs) :
          /\ docs[i].provider \in Providers
          /\ docs[i].provider = producedBy[i]

StoredAfterUnknownProvider ==
    /\ op = "ask_llm"
    /\ Get(arg, "question", << >>) # << >>
    /\ Get(arg, "provider", "openai") = "mistral"
    /\ Len(docs) = 2
    /\ docs[1].provider = "google"
    /\ docs[2].provider = "anthropic"

\* C10: in the listing, a response body longer than 200 characters appears
\* as its first 200 characters followed by "...", and a body of 200
\* characters or fewer appears exactly as stored.
ListingTruncation ==
    (op = "search_chat_history" /\ ret.kind = "text" /\ ret.tag = "found") =>
        /\ Len(ret.body.items) = Len(found)
        /\ \A i \in 1..Len(found) :
              LET r == found[i].response
                  a == ret.body.items[i].a
              IN  IF Len(r) > 200
                  THEN /\ Len(a) = 203
                       /\ \A j \in 1..200 : a[j] = r[j]
                       /\ \A j \in 201..203 : a[j] = "."
                  ELSE a = r

ListingAtTheLimit ==
    /\ op = "search_chat_history"
    /\ ret.tag = "found"
    /\ Len(found) = 2
    /\ Len(found[1].response) = 200
    /\ Len(found[2].response) = 201

=============================================================================
